---------------------------- MODULE Spec2Model ----------------------------
(***************************************************************************)
(* A model of the style resolver (src/src/style.rs) and the layout engine  *)
(* (src/src/layout.rs) of the browser engine.                              *)
(*                                                                         *)
(* Numbers are f32 in the source.  The model uses integers; the inputs are *)
(* drawn from sets on which every division of the code (underflow / 2.0,   *)
(* l * width / 100.0) is exact, so no rounding is modelled.                *)
(*                                                                         *)
(* Option<T> is a sequence: <<>> is None and <<v>> is Some(v).             *)
(* A String that the code parses or compares is a sequence of one-letter   *)
(* strings; a String that is only a key or a name is a TLA+ string.        *)
(***************************************************************************)
EXTENDS Integers, Sequences, FiniteSets, TLC

VARIABLES
    pc,                \* position of the run: "init", "done" or "panicked"
    element,           \* style resolver: the ElementData being styled
    selector,          \* style resolver: the Selector handed to selector_matches
    matched,           \* style resolver: the result of selector_matches
    stylesheet,        \* style resolver: the Stylesheet
    styles,            \* style resolver: the PropertyMap get_styles returned
    styled_root,       \* layout: the StyledNode handed to layout_tree
    containing_block,  \* layout: the Dimensions handed to layout_tree
    root_box           \* layout: the LayoutBox tree returned (<<>> before, or on a panic)

vars == <<pc, element, selector, matched, stylesheet, styles,
          styled_root, containing_block, root_box>>

None == <<>>
Some(v) == <<v>>

(***************************************************************************)
(* css.rs: values                                                          *)
(***************************************************************************)
Units == {"Em", "Ex", "Ch", "Rem", "Vh", "Vw", "Vmin", "Vmax",
          "Px", "Mm", "Q", "Cm", "In", "Pt", "Pc", "Pct"}

Length(n, u) == [kind |-> "Length", n |-> n, unit |-> u]
Other(s) == [kind |-> "Other", s |-> s]
Color(c) == [kind |-> "Color", c |-> c]

Px(n) == Length(n, "Px")

\* the strings the code compares or parses, letter by letter
block == <<"b", "l", "o", "c", "k">>
none == <<"n", "o", "n", "e">>
inline_block == <<"i", "n", "l", "i", "n", "e", "-", "b", "l", "o", "c", "k">>
auto == <<"a", "u", "t", "o">>

Declaration(p, v) == [property |-> p, value |-> v]
SimpleSelector(t, i, c) == [tag_name |-> t, id |-> i, classes |-> c]
Selector(s, c) == [simple |-> s, combinators |-> c]
Rule(s, d) == [selectors |-> s, declarations |-> d]

(***************************************************************************)
(* dom.rs is not part of the sources at hand: an element is its tag name   *)
(* and its attribute map; get_id reads the attribute "id", get_classes     *)
(* the set of the whitespace-separated tokens of "class".                  *)
(***************************************************************************)
ElementData(t, i, c) == [tag_name |-> t, id |-> i, class |-> c]

get_id(e) == e.id

get_classes(e) == {e.class[k] : k \in 1..Len(e.class)}

(***************************************************************************)
(* style.rs: selector_matches                                              *)
(***************************************************************************)
tag_differs(e, s) == s.tag_name # None /\ s.tag_name[1] # e.tag_name

\* a plausible slip: an element without an id gets past a selector with an id
id_differs_lax(e, s) == get_id(e) # None /\ s.id # None /\ get_id(e)[1] # s.id[1]

id_differs(e, s) ==
    IF get_id(e) # None
    THEN s.id # None /\ get_id(e)[1] # s.id[1]
    ELSE s.id # None

classes_match(e, s) ==
    LET element_classes == get_classes(e)
    IN  \A c \in 1..Len(s.classes) : s.classes[c] \in element_classes

RECURSIVE simple_matches_from(_, _, _)
simple_matches_from(e, simple, k) ==
    IF k > Len(simple) THEN FALSE
    ELSE IF tag_differs(e, simple[k]) THEN simple_matches_from(e, simple, k + 1)
    ELSE IF id_differs(e, simple[k]) THEN simple_matches_from(e, simple, k + 1)
    ELSE IF classes_match(e, simple[k]) THEN TRUE
    ELSE simple_matches_from(e, simple, k + 1)

selector_matches(e, sel) == simple_matches_from(e, sel.simple, 1)

(***************************************************************************)
(* style.rs: StyledNode::get_styles, value, get_display, num_or            *)
(***************************************************************************)
EmptyMap == [p \in {} |-> None]

\* a plausible slip: the first value of a property is kept (entry().or_insert)
insert_keep_first(m, k, v) ==
    [p \in DOMAIN m \cup {k} |-> IF p \in DOMAIN m THEN m[p] ELSE v]

insert(m, k, v) == [p \in DOMAIN m \cup {k} |-> IF p = k THEN v ELSE m[p]]

RECURSIVE insert_declarations(_, _, _)
insert_declarations(m, decls, k) ==
    IF k > Len(decls) THEN m
    ELSE insert_declarations(insert(m, decls[k].property, decls[k].value), decls, k + 1)

\* the inner loop: the first selector that matches inserts the declarations, then break
RECURSIVE apply_rule(_, _, _, _)
apply_rule(m, e, rule, k) ==
    IF k > Len(rule.selectors) THEN m
    ELSE IF selector_matches(e, rule.selectors[k])
         THEN insert_declarations(m, rule.declarations, 1)
         ELSE apply_rule(m, e, rule, k + 1)

RECURSIVE apply_rules(_, _, _, _)
apply_rules(m, e, rules, k) ==
    IF k > Len(rules) THEN m
    ELSE apply_rules(apply_rule(m, e, rules[k], 1), e, rules, k + 1)

get_styles(e, sheet) == apply_rules(EmptyMap, e, sheet.rules, 1)

StyledNode(s, c) == [styles |-> s, children |-> c]

value(node, name) ==
    IF name \in DOMAIN node.styles THEN Some(node.styles[name]) ELSE None

get_display(node) ==
    LET v == value(node, "display")
    IN  IF v = None THEN "Inline"
        ELSE IF v[1].kind # "Other" THEN "Inline"
        ELSE IF v[1].s = block THEN "Block"
        ELSE IF v[1].s = none THEN "None"
        ELSE IF v[1].s = inline_block THEN "InlineBlock"
        ELSE "Inline"

num_or(node, name, default) ==
    LET v == value(node, name)
    IN  IF v = None THEN default
        ELSE IF v[1].kind = "Length" THEN v[1].n
        ELSE default

(***************************************************************************)
(* layout.rs: Rectangle, EdgeSizes, Dimensions                             *)
(***************************************************************************)
Rectangle(x, y, w, h) == [x |-> x, y |-> y, width |-> w, height |-> h]
EdgeSizes(l, r, t, b) == [left |-> l, right |-> r, top |-> t, bottom |-> b]

\* #[derive(Default)]: every field is 0.0
DefaultDimensions ==
    [content |-> Rectangle(0, 0, 0, 0),
     padding |-> EdgeSizes(0, 0, 0, 0),
     border  |-> EdgeSizes(0, 0, 0, 0),
     margin  |-> EdgeSizes(0, 0, 0, 0),
     current |-> Rectangle(0, 0, 0, 0)]

expanded(r, e) ==
    Rectangle(r.x - e.left, r.y - e.top,
              r.width + e.left + e.right, r.height + e.top + e.bottom)

padding_box(d) == expanded(d.content, d.padding)
border_box(d) == expanded(padding_box(d), d.border)
margin_box(d) == expanded(border_box(d), d.margin)

\* LayoutBox::new; panicked is the model's mark of a call that unwound in a panic
LayoutBox(box_type, styled_node) ==
    [dimensions |-> DefaultDimensions,
     box_type |-> box_type,
     styled_node |-> styled_node,
     children |-> <<>>,
     panicked |-> FALSE]

(***************************************************************************)
(* String::parse::<f32>, on the strings the integers of the model can      *)
(* spell: an optional sign and one digit or more.  Any other string is an  *)
(* Err (fractions, exponents, inf and NaN are outside the model).          *)
(***************************************************************************)
Digits == <<"0", "1", "2", "3", "4", "5", "6", "7", "8", "9">>

IsDigit(c) == \E k \in 1..10 : Digits[k] = c

DigitValue(c) == (CHOOSE k \in 1..10 : Digits[k] = c) - 1

RECURSIVE parse_digits(_, _, _)
parse_digits(s, k, acc) ==
    IF k > Len(s) THEN Some(acc)
    ELSE IF IsDigit(s[k]) THEN parse_digits(s, k + 1, 10 * acc + DigitValue(s[k]))
    ELSE None

parse(s) ==
    IF s = <<>> THEN None
    ELSE IF s[1] = "-"
         THEN IF Len(s) = 1 THEN None
              ELSE LET r == parse_digits(s, 2, 0) IN IF r = None THEN None ELSE Some(0 - r[1])
    ELSE IF s[1] = "+"
         THEN IF Len(s) = 1 THEN None ELSE parse_digits(s, 2, 0)
    ELSE parse_digits(s, 1, 0)

unwrap_or(o, default) == IF o = None THEN default ELSE o[1]

(***************************************************************************)
(* layout.rs: get_absolute_num.  The result is [panic, ret]: panic is TRUE *)
(* when the call ends in panic!("Unimplemented css length unit").          *)
(***************************************************************************)
Returned(o) == [panic |-> FALSE, ret |-> o]
Panicked == [panic |-> TRUE, ret |-> None]

get_absolute_num(s_node, b_box, prop) ==
    LET v == value(s_node, prop)
    IN  IF v = None THEN Returned(None)
        ELSE IF v[1].kind # "Length" THEN Returned(None)
        ELSE IF v[1].unit = "Px" THEN Returned(Some(v[1].n))
        ELSE IF v[1].unit = "Pct"
             THEN Returned(Some((v[1].n * b_box.content.width) \div 100))
        ELSE Panicked

(***************************************************************************)
(* layout.rs: calculate_width (block mode)                                 *)
(***************************************************************************)
\* the margin_l_num / margin_r_num of calculate_width: only Value::Other is read
margin_num(m) ==
    IF m = None THEN 0
    ELSE IF m[1].kind = "Other" THEN unwrap_or(parse(m[1].s), 0)
    ELSE 0

\* underflow / 2.0
Half(x) == x \div 2

\* a plausible slip: the content width takes the underflow whatever its sign
fits_always(underflow) == TRUE

\* if underflow >= 0.0
fits(underflow) == underflow >= 0

\* a plausible slip: the whole underflow goes to each auto margin
auto_margin_whole(underflow) == underflow

auto_margin(underflow) == Half(underflow)

calculate_width(box, b_box) ==
    LET style == box.styled_node
        d == box.dimensions
        w == get_absolute_num(style, b_box, "width")
        width == unwrap_or(w.ret, 0)
        margin_l == value(style, "margin-left")
        margin_r == value(style, "margin-right")
        margin_l_num == margin_num(margin_l)
        margin_r_num == margin_num(margin_r)
        border_left == num_or(style, "border-left-width", 0)
        border_right == num_or(style, "border-right-width", 0)
        padding_left == num_or(style, "padding-left", 0)
        padding_right == num_or(style, "padding-right", 0)
        total == width + margin_l_num + margin_r_num + border_left + border_right
                 + padding_left + padding_right
        underflow == b_box.content.width - total
        d1 == [d EXCEPT !.border.left = border_left, !.border.right = border_right,
                        !.padding.left = padding_left, !.padding.right = padding_right]
        d2 == IF width = 0
              THEN IF fits(underflow)
                   THEN [d1 EXCEPT !.content.width = underflow,
                                   !.margin.right = margin_r_num,
                                   !.margin.left = margin_l_num]
                   ELSE [d1 EXCEPT !.margin.right = margin_r_num + underflow,
                                   !.content.width = width,
                                   !.margin.left = margin_l_num]
              ELSE IF margin_l = None /\ margin_r # None
              THEN [d1 EXCEPT !.margin.left = underflow,
                              !.margin.right = margin_r_num,
                              !.content.width = width]
              ELSE IF margin_l # None /\ margin_r = None
              THEN [d1 EXCEPT !.margin.right = underflow,
                              !.margin.left = margin_l_num,
                              !.content.width = width]
              ELSE IF margin_l = None /\ margin_r = None
              THEN [d1 EXCEPT !.margin.left = auto_margin(underflow),
                              !.margin.right = auto_margin(underflow),
                              !.content.width = width]
              ELSE [d1 EXCEPT !.margin.right = margin_r_num + underflow,
                              !.margin.left = margin_l_num,
                              !.content.width = width]
    IN  IF w.panic THEN [box EXCEPT !.panicked = TRUE]
        ELSE [box EXCEPT !.dimensions = d2]

(***************************************************************************)
(* layout.rs: calculate_position, calculate_inline_width,                  *)
(* calculate_inline_position, calculate_height                             *)
(***************************************************************************)
vertical_edges(style, d) ==
    [d EXCEPT !.margin.top = num_or(style, "margin-top", 0),
              !.margin.bottom = num_or(style, "margin-bottom", 0),
              !.border.top = num_or(style, "border-top-width", 0),
              !.border.bottom = num_or(style, "border-bottom-width", 0),
              !.padding.top = num_or(style, "padding-top", 0),
              !.padding.bottom = num_or(style, "padding-bottom", 0)]

calculate_position(box, b_box) ==
    LET d == vertical_edges(box.styled_node, box.dimensions)
    IN  [box EXCEPT !.dimensions =
            [d EXCEPT !.content.x = b_box.content.x + d.margin.left + d.border.left
                                    + d.padding.left,
                      !.content.y = b_box.content.height + b_box.content.y + d.margin.top
                                    + d.border.top + d.padding.top]]

calculate_inline_width(box, b_box) ==
    LET s == box.styled_node
        w == get_absolute_num(s, b_box, "width")
    IN  IF w.panic THEN [box EXCEPT !.panicked = TRUE]
        ELSE [box EXCEPT !.dimensions =
                [@ EXCEPT !.content.width = unwrap_or(w.ret, 0),
                          !.margin.left = num_or(s, "margin-left", 0),
                          !.margin.right = num_or(s, "margin-right", 0),
                          !.padding.left = num_or(s, "padding-left", 0),
                          !.padding.right = num_or(s, "padding-right", 0),
                          !.border.left = num_or(s, "border-left-width", 0),
                          !.border.right = num_or(s, "border-right-width", 0)]]

calculate_inline_position(box, b_box) ==
    LET d == vertical_edges(box.styled_node, box.dimensions)
    IN  [box EXCEPT !.dimensions =
            [d EXCEPT !.content.x = b_box.content.x + b_box.current.x + d.margin.left
                                    + d.border.left + d.padding.left,
                      !.content.y = b_box.content.height + b_box.content.y + d.margin.top
                                    + d.border.top + d.padding.top]]

calculate_height(box) ==
    LET h == value(box.styled_node, "height")
    IN  IF h # None /\ h[1].kind = "Length"
        THEN [box EXCEPT !.dimensions.content.height = h[1].n]
        ELSE box

(***************************************************************************)
(* layout.rs: layout, layout_block, layout_inline_block, layout_children   *)
(* A step of a box that has panicked is skipped: the panic unwinds.        *)
(***************************************************************************)
\* a plausible slip: the row is flushed without resetting the cursor
flush_row_keep_cursor(d, max_child_height) ==
    [d EXCEPT !.content.height = @ + max_child_height]

\* d.content.height += max_child_height; d.current.x = 0.0
flush_row(d, max_child_height) ==
    [d EXCEPT !.content.height = @ + max_child_height, !.current.x = 0]

RECURSIVE layout(_, _)
RECURSIVE layout_children_from(_, _, _, _)

\* the body of the for loop for child k, then the rest of the loop
layout_children_from(box, k, max_child_height, prev_box_type) ==
    IF k > Len(box.children) THEN box
    ELSE
    LET d0 == box.dimensions
        child0 == box.children[k]
        d1 == IF prev_box_type = "InlineBlock" /\ child0.box_type = "Block"
              THEN flush_row(d0, max_child_height)
              ELSE d0
        child1 == layout(child0, d1)
        new_height == margin_box(child1.dimensions).height
        max1 == IF new_height > max_child_height THEN new_height ELSE max_child_height
        advanced == d1.current.x + margin_box(child1.dimensions).width
        wraps == child1.box_type = "InlineBlock" /\ advanced > d1.content.width
        d_flushed == flush_row(d1, max1)
        child2 == IF wraps THEN layout(child1, d_flushed) ELSE child1
        d2 == IF child1.box_type = "Block"
              THEN [d1 EXCEPT !.content.height = @ + margin_box(child1.dimensions).height]
              ELSE IF child1.box_type = "InlineBlock"
              THEN IF wraps
                   THEN [d_flushed EXCEPT !.current.x =
                            @ + margin_box(child2.dimensions).width]
                   ELSE [d1 EXCEPT !.current.x = advanced]
              ELSE d1
    IN  IF child1.panicked
        THEN [box EXCEPT !.dimensions = d1, !.children[k] = child1, !.panicked = TRUE]
        ELSE IF child2.panicked
        THEN [box EXCEPT !.dimensions = d_flushed, !.children[k] = child2,
                         !.panicked = TRUE]
        ELSE layout_children_from(
                 [box EXCEPT !.dimensions = d2, !.children[k] = child2],
                 k + 1, max1, child2.box_type)

\* let mut max_child_height = 0.0; let mut prev_box_type = BoxType::Block;
layout_children(box) ==
    IF box.panicked THEN box ELSE layout_children_from(box, 1, 0, "Block")

layout_block(box, b_box) ==
    LET b1 == calculate_width(box, b_box)
        b2 == IF b1.panicked THEN b1 ELSE calculate_position(b1, b_box)
        b3 == layout_children(b2)
    IN  IF b3.panicked THEN b3 ELSE calculate_height(b3)

layout_inline_block(box, b_box) ==
    LET b1 == calculate_inline_width(box, b_box)
        b2 == IF b1.panicked THEN b1 ELSE calculate_inline_position(b1, b_box)
        b3 == layout_children(b2)
    IN  IF b3.panicked THEN b3 ELSE calculate_height(b3)

layout(box, b_box) ==
    IF box.box_type \in {"Block", "Inline"} THEN layout_block(box, b_box)
    ELSE IF box.box_type = "InlineBlock" THEN layout_inline_block(box, b_box)
    ELSE box

(***************************************************************************)
(* layout.rs: build_layout_tree, layout_tree                               *)
(***************************************************************************)
box_type_of(display) ==
    IF display = "Block" THEN "Block"
    ELSE IF display = "Inline" THEN "Inline"
    ELSE IF display = "InlineBlock" THEN "InlineBlock"
    ELSE "Anonymous"

\* a plausible slip: a display:none child is pushed like the others
child_is_pushed_always(child) == TRUE

\* the match of the for loop: Display::None => {}
child_is_pushed(child) == get_display(child) # "None"

RECURSIVE build_layout_tree(_)
RECURSIVE build_children(_, _)

build_children(children, k) ==
    IF k > Len(children) THEN <<>>
    ELSE IF child_is_pushed(children[k])
         THEN <<build_layout_tree(children[k])>> \o build_children(children, k + 1)
         ELSE build_children(children, k + 1)

build_layout_tree(node) ==
    [LayoutBox(box_type_of(get_display(node)), node)
        EXCEPT !.children = build_children(node.children, 1)]

\* the box tree returned, or None when the call panics
layout_tree(root, cb) ==
    LET cb0 == [cb EXCEPT !.content.height = 0]
        laid == layout(build_layout_tree(root), cb0)
    IN  IF laid.panicked THEN None ELSE Some(laid)

(***************************************************************************)
(* Inputs.  The variables a call does not use stay None.                   *)
(***************************************************************************)
MaxSimple == 2    \* simple selectors of a selector
MaxRules == 2     \* rules of a stylesheet
MaxNodes == 4     \* nodes of a styled tree

RECURSIVE SeqsUpTo(_, _)
SeqsUpTo(S, n) ==
    IF n = 0 THEN {<<>>}
    ELSE LET shorter == SeqsUpTo(S, n - 1)
         IN  shorter \cup {Append(q, x) : q \in {r \in shorter : Len(r) = n - 1}, x \in S}

Elements ==
    {ElementData(t, i, c) :
        t \in {"div", "span"},
        i \in {None, Some("a"), Some("b")},
        c \in {<<>>, <<"x">>, <<"y">>, <<"x", "y">>}}

SimpleSelectors ==
    {SimpleSelector(t, i, c) :
        t \in {None, Some("div")},
        i \in {None, Some("a")},
        c \in {<<>>, <<"x">>, <<"x", "y">>}}

\* a selector holds one combinator between two simple selectors
Selectors(n) ==
    UNION {{Selector(q, c) : c \in [1..(IF Len(q) = 0 THEN 0 ELSE Len(q) - 1) -> {" ", ">"}]} :
              q \in SeqsUpTo(SimpleSelectors, n)}

red == Color("red")
blue == Color("blue")

class_x == Selector(<<SimpleSelector(None, None, <<"x">>)>>, <<>>)
class_y == Selector(<<SimpleSelector(None, None, <<"y">>)>>, <<>>)
div_x_span == Selector(<<SimpleSelector(Some("div"), None, <<"x">>),
                         SimpleSelector(Some("span"), None, <<>>)>>, <<" ">>)
id_a == Selector(<<SimpleSelector(None, Some("a"), <<>>)>>, <<>>)

Rules ==
    {Rule(sel, decl) :
        sel \in {<<>>, <<class_x>>, <<class_y>>, <<id_a, div_x_span>>},
        decl \in {<<>>,
                  <<Declaration("color", red)>>,
                  <<Declaration("color", blue)>>,
                  <<Declaration("width", Px(10))>>,
                  <<Declaration("color", red), Declaration("color", blue)>>,
                  <<Declaration("color", blue), Declaration("width", Px(20))>>}}

Stylesheets(n) == {[rules |-> r] : r \in SeqsUpTo(Rules, n)}

StyledElements ==
    {ElementData(t, i, c) :
        t \in {"div", "span"},
        i \in {None, Some("a")},
        c \in {<<>>, <<"x">>, <<"x", "y">>}}

\* a property map from <<name, Option<Value>>> pairs
StyleMap(entries) ==
    LET present == {e \in entries : e[2] # None}
    IN  [p \in {e[1] : e \in present} |-> (CHOOSE e \in present : e[1] = p)[2][1]]

\* main.rs: the viewport is a default Dimensions with a width and a height
ViewportHeight == 768
Viewport(w) ==
    [DefaultDimensions EXCEPT !.content.width = w, !.content.height = ViewportHeight]

WidthStyles ==
    {StyleMap({<<"display", dp>>, <<"width", w>>, <<"margin-left", ml>>,
               <<"margin-right", mr>>, <<"padding-left", pl>>,
               <<"border-right-width", br>>}) :
        dp \in {None, Some(Other(block))},
        w \in {None, Some(Px(0)), Some(Px(100)), Some(Px(300)), Some(Length(50, "Pct")),
               Some(Other(auto)), Some(Length(10, "Em"))},
        ml \in {None, Some(Px(20)), Some(Other(<<"2", "0">>)), Some(Other(auto))},
        mr \in {None, Some(Px(20)), Some(Other(<<"2", "0">>)), Some(Other(auto))},
        pl \in {None, Some(Px(10))},
        br \in {None, Some(Px(4))}}

S_block == StyleMap({<<"display", Some(Other(block))>>})
S_block30 == StyleMap({<<"display", Some(Other(block))>>, <<"height", Some(Px(26))>>,
                       <<"margin-bottom", Some(Px(4))>>})
S_block50 == StyleMap({<<"display", Some(Other(block))>>, <<"width", Some(Px(60))>>,
                       <<"height", Some(Px(50))>>})
S_inline == StyleMap({<<"padding-left", Some(Px(50))>>})
S_ib40 == StyleMap({<<"display", Some(Other(inline_block))>>, <<"width", Some(Px(40))>>,
                    <<"height", Some(Px(30))>>})
S_ib50 == StyleMap({<<"display", Some(Other(inline_block))>>, <<"width", Some(Px(40))>>,
                    <<"height", Some(Px(50))>>, <<"margin-left", Some(Px(4))>>,
                    <<"border-left-width", Some(Px(2))>>, <<"padding-left", Some(Px(2))>>,
                    <<"margin-top", Some(Px(6))>>})
S_none == StyleMap({<<"display", Some(Other(none))>>})

Palette == {S_block, S_block30, S_block50, S_inline, S_ib40, S_ib50, S_none}

\* lengths in units get_absolute_num does not implement
S_width_em == StyleMap({<<"display", Some(Other(block))>>,
                        <<"width", Some(Length(10, "Em"))>>})
S_ib_width_pt == StyleMap({<<"display", Some(Other(inline_block))>>,
                           <<"width", Some(Length(12, "Pt"))>>})
S_height_em == StyleMap({<<"display", Some(Other(block))>>,
                         <<"height", Some(Length(10, "Em"))>>})
S_ib_height_vh == StyleMap({<<"display", Some(Other(inline_block))>>,
                            <<"width", Some(Px(40))>>,
                            <<"height", Some(Length(5, "Vh"))>>})

UnitPalette == {S_block, S_none, S_width_em, S_ib_width_pt, S_height_em, S_ib_height_vh}

(***************************************************************************)
(* A styled tree of n nodes is drawn as its shape and its styles.  The     *)
(* nodes are numbered in document order (a node before its descendants,    *)
(* before its later siblings); shape[i] is the parent of node i, 0 for the *)
(* root, and style[i] the property map of node i.                          *)
(***************************************************************************)
RECURSIVE IsAncestorOrSelf(_, _, _)
IsAncestorOrSelf(shape, a, i) ==
    IF i = 0 THEN FALSE
    ELSE IF i = a THEN TRUE
    ELSE IsAncestorOrSelf(shape, a, shape[i])

Shapes(n) ==
    {shape \in [1..n -> 0..(n - 1)] :
        /\ shape[1] = 0
        /\ \A i \in 2..n : shape[i] >= 1 /\ IsAncestorOrSelf(shape, shape[i], i - 1)}

RECURSIVE TreeAt(_, _, _)
RECURSIVE ChildrenFrom(_, _, _, _)

\* the styled children of node i among the nodes j..Len(shape)
ChildrenFrom(shape, style, i, j) ==
    IF j > Len(shape) THEN <<>>
    ELSE IF shape[j] = i
         THEN <<TreeAt(shape, style, j)>> \o ChildrenFrom(shape, style, i, j + 1)
         ELSE ChildrenFrom(shape, style, i, j + 1)

TreeAt(shape, style, i) == StyledNode(style[i], ChildrenFrom(shape, style, i, i + 1))

(***************************************************************************)
(* The calls                                                               *)
(***************************************************************************)
InitMatch ==
    /\ pc = "selector_matches"
    /\ element \in Elements
    /\ selector \in Selectors(MaxSimple)
    /\ matched = None
    /\ stylesheet = None /\ styles = None
    /\ styled_root = None /\ containing_block = None /\ root_box = None

InitStyle ==
    /\ pc = "get_styles"
    /\ element \in StyledElements
    /\ stylesheet \in Stylesheets(MaxRules)
    /\ styles = None
    /\ selector = None /\ matched = None
    /\ styled_root = None /\ containing_block = None /\ root_box = None

InitWidth ==
    /\ pc = "calculate_width"
    /\ styled_root \in {StyledNode(st, <<>>) : st \in WidthStyles}
    /\ containing_block \in {Viewport(w) : w \in {100, 200}}
    /\ root_box = None
    /\ element = None /\ selector = None /\ matched = None
    /\ stylesheet = None /\ styles = None

InitLayout ==
    /\ pc = "layout_tree"
    /\ \E n \in 1..MaxNodes : \E shape \in Shapes(n) : \E style \in [1..n -> Palette] :
           styled_root = TreeAt(shape, style, 1)
    /\ containing_block = Viewport(100)
    /\ root_box = None
    /\ element = None /\ selector = None /\ matched = None
    /\ stylesheet = None /\ styles = None

\* layout_tree on the trees that declare lengths in other units
InitUnits ==
    /\ pc = "layout_tree"
    /\ \E n \in 1..MaxNodes : \E shape \in Shapes(n) : \E style \in [1..n -> UnitPalette] :
           styled_root = TreeAt(shape, style, 1)
    /\ containing_block = Viewport(100)
    /\ root_box = None
    /\ element = None /\ selector = None /\ matched = None
    /\ stylesheet = None /\ styles = None

Init == InitMatch \/ InitStyle \/ InitWidth \/ InitLayout \/ InitUnits

SelectorMatches ==
    /\ pc = "selector_matches"
    /\ matched' = Some(selector_matches(element, selector))
    /\ pc' = "done"
    /\ UNCHANGED <<element, selector, stylesheet, styles,
                   styled_root, containing_block, root_box>>

GetStyles ==
    /\ pc = "get_styles"
    /\ styles' = Some(get_styles(element, stylesheet))
    /\ pc' = "done"
    /\ UNCHANGED <<element, selector, matched, stylesheet,
                   styled_root, containing_block, root_box>>

\* calculate_width on the fresh box of a node, as layout_block calls it
CalculateWidth ==
    /\ pc = "calculate_width"
    /\ LET b == calculate_width(build_layout_tree(styled_root), containing_block)
       IN  /\ root_box' = IF b.panicked THEN None ELSE Some(b)
           /\ pc' = IF b.panicked THEN "panicked" ELSE "done"
    /\ UNCHANGED <<element, selector, matched, stylesheet, styles,
                   styled_root, containing_block>>

LayoutTree ==
    /\ pc = "layout_tree"
    /\ root_box' = layout_tree(styled_root, containing_block)
    /\ pc' = IF root_box' = None THEN "panicked" ELSE "done"
    /\ UNCHANGED <<element, selector, matched, stylesheet, styles,
                   styled_root, containing_block>>

Next == SelectorMatches \/ GetStyles \/ CalculateWidth \/ LayoutTree

Spec == Init /\ [][Next]_vars

SpecMatch == InitMatch /\ [][SelectorMatches]_vars
SpecStyle == InitStyle /\ [][GetStyles]_vars
SpecWidth == InitWidth /\ [][CalculateWidth]_vars
SpecLayout == InitLayout /\ [][LayoutTree]_vars
SpecUnits == InitUnits /\ [][LayoutTree]_vars

(***************************************************************************)
(* Style resolver: the claims                                              *)
(***************************************************************************)
\* what it is for an element to satisfy one simple selector
SimpleSatisfied(e, s) ==
    /\ s.tag_name = None \/ s.tag_name[1] = e.tag_name
    /\ s.id = None \/ (e.id # None /\ e.id[1] = s.id[1])
    /\ \A c \in 1..Len(s.classes) : \E t \in 1..Len(e.class) : e.class[t] = s.classes[c]

SelectorSatisfied(e, sel) ==
    \E k \in 1..Len(sel.simple) : SimpleSatisfied(e, sel.simple[k])

\* C2: selector_matches is true exactly when the element satisfies at least one
\* simple selector of the selector (tag absent or equal, id absent or equal, every
\* required class present); the combinators play no part, and a selector with no
\* simple selector matches nothing.
C2_SelectorMatching ==
    (pc = "done" /\ matched # None) =>
        /\ matched[1] = SelectorSatisfied(element, selector)
        /\ selector.simple = <<>> => matched[1] = FALSE

\* an element without an id, refused by a first alternative that asks for an id and
\* matched by the second, in a selector that stores a combinator
C2_Witness ==
    /\ pc = "done" /\ matched = Some(TRUE)
    /\ Len(selector.simple) = 2 /\ selector.combinators = <<">">>
    /\ element.id = None /\ selector.simple[1].id # None
    /\ selector.simple[2].classes = <<"x", "y">>

PropertyNames == {"color", "width", "height"}

RuleApplies(e, rule) ==
    \E k \in 1..Len(rule.selectors) : SelectorSatisfied(e, rule.selectors[k])

\* the places <<rule, declaration>> where a rule that matches e declares p
DeclarationsOf(e, sheet, p) ==
    UNION {{<<i, j>> : j \in {j \in 1..Len(sheet.rules[i].declarations) :
                                 sheet.rules[i].declarations[j].property = p}} :
           i \in {i \in 1..Len(sheet.rules) : RuleApplies(e, sheet.rules[i])}}

LastOf(D) ==
    CHOOSE d \in D : \A o \in D : o[1] < d[1] \/ (o[1] = d[1] /\ o[2] <= d[2])

\* C1: the resolved value of a property is the value of its last declaration, in
\* stylesheet order, among the rules that match the element; the property is absent
\* exactly when no matching rule declares it.
C1_CascadeOrder ==
    (pc = "done" /\ styles # None) =>
        /\ DOMAIN styles[1] \subseteq PropertyNames
        /\ \A p \in PropertyNames :
             LET D == DeclarationsOf(element, stylesheet, p)
             IN  IF D = {} THEN p \notin DOMAIN styles[1]
                 ELSE /\ p \in DOMAIN styles[1]
                      /\ styles[1][p] =
                            stylesheet.rules[LastOf(D)[1]].declarations[LastOf(D)[2]].value

\* .x{color:red} then .y{color:blue; width:20px}, both matching: color is blue
C1_Witness ==
    /\ pc = "done" /\ styles # None
    /\ Len(stylesheet.rules) = 2
    /\ stylesheet.rules[1] = Rule(<<class_x>>, <<Declaration("color", red)>>)
    /\ stylesheet.rules[2].selectors = <<class_y>>
    /\ RuleApplies(element, stylesheet.rules[1])
    /\ RuleApplies(element, stylesheet.rules[2])
    /\ styles[1]["color"] = blue

(***************************************************************************)
(* Block width: the claims.  They speak of what a node declares.           *)
(***************************************************************************)
Declares(node, p) == p \in DOMAIN node.styles

DeclaresLength(node, p) == Declares(node, p) /\ node.styles[p].kind = "Length"

DeclaresPx(node, p) == DeclaresLength(node, p) /\ node.styles[p].unit = "Px"

\* the number a declaration of a length states: the magnitude of a Length, the
\* number an Other string spells, 0 when there is none
DeclaredOr0(node, p) ==
    IF ~Declares(node, p) THEN 0
    ELSE IF node.styles[p].kind = "Length" THEN node.styles[p].n
    ELSE IF node.styles[p].kind = "Other" THEN unwrap_or(parse(node.styles[p].s), 0)
    ELSE 0

\* the width a node declares in a containing block of content width cw, 0 for none
DeclaredWidth(node, cw) ==
    IF ~DeclaresLength(node, "width") THEN 0
    ELSE IF node.styles["width"].unit = "Px" THEN node.styles["width"].n
    ELSE IF node.styles["width"].unit = "Pct" THEN (node.styles["width"].n * cw) \div 100
    ELSE 0

HorizontalEdges(node) ==
    DeclaredOr0(node, "border-left-width") + DeclaredOr0(node, "border-right-width")
    + DeclaredOr0(node, "padding-left") + DeclaredOr0(node, "padding-right")

\* the underflow of the claims: the declared margins count in it
ClaimedUnderflow(node, cw) ==
    cw - (DeclaredWidth(node, cw) + DeclaredOr0(node, "margin-left")
          + DeclaredOr0(node, "margin-right") + HorizontalEdges(node))

WidthDone == pc = "done" /\ root_box # None /\ styled_root # None /\ styled_root.children = <<>>

\* C3, as claimed: with a non-zero width and both margins declared as pixel lengths,
\* content.width is the width, margin.left the declared left margin and margin.right
\* the declared right margin plus the underflow.
C3_OverConstrained_Claimed ==
    (/\ WidthDone
     /\ DeclaredWidth(styled_root, containing_block.content.width) # 0
     /\ DeclaresPx(styled_root, "margin-left")
     /\ DeclaresPx(styled_root, "margin-right")) =>
        LET d == root_box[1].dimensions
            cw == containing_block.content.width
        IN  /\ d.content.width = DeclaredWidth(styled_root, cw)
            /\ d.margin.left = DeclaredOr0(styled_root, "margin-left")
            /\ d.margin.right = DeclaredOr0(styled_root, "margin-right")
                                + ClaimedUnderflow(styled_root, cw)

\* C4, as claimed: with no width declared, margin.left is the declared left margin or
\* 0; content.width is the underflow and margin.right the declared right margin or 0
\* when the underflow is not negative; content.width is 0 and margin.right the declared
\* right margin or 0 plus the underflow when it is negative.
C4_AutoWidth_Claimed ==
    (WidthDone /\ ~Declares(styled_root, "width")) =>
        LET d == root_box[1].dimensions
            underflow == ClaimedUnderflow(styled_root, containing_block.content.width)
        IN  /\ d.margin.left = DeclaredOr0(styled_root, "margin-left")
            /\ underflow >= 0 =>
                  /\ d.content.width = underflow
                  /\ d.margin.right = DeclaredOr0(styled_root, "margin-right")
            /\ underflow < 0 =>
                  /\ d.content.width = 0
                  /\ d.margin.right = DeclaredOr0(styled_root, "margin-right") + underflow

\* C5: with a non-zero width declared and neither margin declared, content.width is
\* the width and each margin is half the underflow, negative or not.
C5_SymmetricAutoMargins ==
    (/\ WidthDone
     /\ DeclaredWidth(styled_root, containing_block.content.width) # 0
     /\ ~Declares(styled_root, "margin-left")
     /\ ~Declares(styled_root, "margin-right")) =>
        LET d == root_box[1].dimensions
            cw == containing_block.content.width
        IN  /\ d.content.width = DeclaredWidth(styled_root, cw)
            /\ d.margin.left = d.margin.right
            /\ 2 * d.margin.left = ClaimedUnderflow(styled_root, cw)

\* containing width 200, width 100px, no margin, border or padding: 50 and 50
C5_Witness ==
    /\ WidthDone
    /\ containing_block.content.width = 200
    /\ DOMAIN styled_root.styles = {"display", "width"}
    /\ styled_root.styles["width"] = Px(100)
    /\ root_box[1].dimensions.content.width = 100
    /\ root_box[1].dimensions.margin.left = 50
    /\ root_box[1].dimensions.margin.right = 50

(***************************************************************************)
(* Layout of a tree: the claims                                            *)
(***************************************************************************)
LayoutDone == pc = "done" /\ root_box # None /\ styled_root # None

\* every box of the tree under box, each with the content width of its containing block
RECURSIVE Boxes(_, _)
Boxes(box, cw) ==
    {[box |-> box, cw |-> cw]}
    \cup UNION {Boxes(box.children[k], box.dimensions.content.width) :
                   k \in 1..Len(box.children)}

RootBoxes == Boxes(root_box[1], containing_block.content.width)

InBlockMode(box) == box.box_type \in {"Block", "Inline"}

EdgesNonNegative(e) == e.left >= 0 /\ e.right >= 0 /\ e.top >= 0 /\ e.bottom >= 0

Demand(node, cw) ==
    DeclaredWidth(node, cw) + margin_num(value(node, "margin-left"))
    + margin_num(value(node, "margin-right")) + HorizontalEdges(node)

RECURSIVE SumMarginBoxHeights(_, _)
SumMarginBoxHeights(children, k) ==
    IF k > Len(children) THEN 0
    ELSE margin_box(children[k].dimensions).height + SumMarginBoxHeights(children, k + 1)

AllChildrenAre(box, type) == \A k \in 1..Len(box.children) : box.children[k].box_type = type

\* C7, as claimed (for the trees whose root is laid out): a Block or Inline box with
\* no declared height whose children are all Block boxes ends with content.height the
\* sum of its children's margin-box heights; with a height Length declared,
\* content.height is the declared value.
C7_AutoHeight_Claimed ==
    (LayoutDone /\ get_display(styled_root) # "None") =>
        \A r \in RootBoxes :
            InBlockMode(r.box) =>
                /\ (~DeclaresLength(r.box.styled_node, "height")
                    /\ AllChildrenAre(r.box, "Block")) =>
                       r.box.dimensions.content.height
                           = SumMarginBoxHeights(r.box.children, 1)
                /\ DeclaresLength(r.box.styled_node, "height") =>
                       r.box.dimensions.content.height = r.box.styled_node.styles["height"].n

\* the styled tree without its display:none elements and their descendants
RECURSIVE Prune(_)
RECURSIVE PruneChildren(_, _)
PruneChildren(children, k) ==
    IF k > Len(children) THEN <<>>
    ELSE IF get_display(children[k]) = "None" THEN PruneChildren(children, k + 1)
    ELSE <<Prune(children[k])>> \o PruneChildren(children, k + 1)

Prune(node) == StyledNode(node.styles, PruneChildren(node.children, 1))

RECURSIVE HasNone(_)
HasNone(node) ==
    \E k \in 1..Len(node.children) :
        get_display(node.children[k]) = "None" \/ HasNone(node.children[k])

\* the geometry of a box tree: the types and dimensions, without the styled nodes
RECURSIVE Geometry(_)
Geometry(box) ==
    [box_type |-> box.box_type,
     dimensions |-> box.dimensions,
     children |-> [k \in 1..Len(box.children) |-> Geometry(box.children[k])]]

\* C8: the geometry layout_tree gives a styled tree is the geometry it gives the tree
\* without its display:none elements; under a display:none root no box is laid out,
\* so nothing is moved and nothing accumulates.
C8_NoneHasNoEffect ==
    LayoutDone =>
        IF get_display(styled_root) = "None"
        THEN \A r \in RootBoxes : r.box.dimensions = DefaultDimensions
        ELSE Geometry(root_box[1])
                = Geometry(layout_tree(Prune(styled_root), containing_block)[1])

\* a display:none element between an inline-block and a block sibling that follows it
C8_Witness ==
    /\ LayoutDone
    /\ get_display(styled_root) = "Block"
    /\ Len(styled_root.children) = 3
    /\ get_display(styled_root.children[1]) = "InlineBlock"
    /\ get_display(styled_root.children[2]) = "None"
    /\ get_display(styled_root.children[3]) = "Block"
    /\ Len(root_box[1].children) = 2
    /\ root_box[1].children[2].dimensions.content.y > 0

\* C9, as claimed: the box tree layout_tree returns holds no box of a display:none
\* node and no Anonymous box, the root included.
C9_NoneExcluded_Claimed ==
    LayoutDone =>
        \A r \in RootBoxes :
            get_display(r.box.styled_node) # "None" /\ r.box.box_type # "Anonymous"

Max(a, b) == IF a > b THEN a ELSE b

\* the rows of the claim, replayed over the children k.. of parent: cursor is the row
\* cursor, row_y the offset of the row under the parent's content top, row_max the
\* largest margin-box height of the children placed in the row so far
RECURSIVE RowsAsClaimed(_, _, _, _, _)
RowsAsClaimed(parent, k, cursor, row_y, row_max) ==
    IF k > Len(parent.children) THEN TRUE
    ELSE LET d == parent.children[k].dimensions
             w == margin_box(d).width
             h == margin_box(d).height
             wraps == cursor + w > parent.dimensions.content.width
             at == IF wraps THEN 0 ELSE cursor
             y == IF wraps THEN row_y + row_max ELSE row_y
         IN  /\ d.content.x = parent.dimensions.content.x + at
                              + d.margin.left + d.border.left + d.padding.left
             /\ margin_box(d).y = parent.dimensions.content.y + y
             /\ RowsAsClaimed(parent, k + 1, at + w, y, IF wraps THEN h ELSE Max(row_max, h))

\* C10, as claimed (for the root box, which is laid out once): in a Block or Inline
\* parent of InlineBlock children each child sits at the row cursor, the cursor
\* advances by the child's margin-box width, and a child whose advanced cursor exceeds
\* the parent's content width sits at cursor 0 of a new row, below the previous row
\* by that row's largest child margin-box height.
C10_RowWrap_Claimed ==
    (/\ LayoutDone
     /\ InBlockMode(root_box[1])
     /\ AllChildrenAre(root_box[1], "InlineBlock")) =>
        RowsAsClaimed(root_box[1], 1, 0, 0, 0)

(***************************************************************************)
(* Units                                                                   *)
(***************************************************************************)
\* the styled nodes whose boxes layout_tree lays out: none under a display:none root,
\* else the nodes that no display:none element hides
RECURSIVE NodesUnder(_)
NodesUnder(node) ==
    {node} \cup UNION {NodesUnder(node.children[k]) :
                          k \in {j \in 1..Len(node.children) :
                                    get_display(node.children[j]) # "None"}}

LaidOutNodes(root) == IF get_display(root) = "None" THEN {} ELSE NodesUnder(root)

UnsupportedUnit(node, p) ==
    DeclaresLength(node, p) /\ node.styles[p].unit \notin {"Px", "Pct"}

LayoutReturned == pc \in {"done", "panicked"} /\ styled_root # None

\* C11, as claimed: when a node that is laid out declares its width or its height as
\* a Length in a unit other than Px and Pct, layout_tree panics and returns no tree.
C11_UnitFatal_Claimed ==
    (/\ LayoutReturned
     /\ \E n \in LaidOutNodes(styled_root) :
            UnsupportedUnit(n, "width") \/ UnsupportedUnit(n, "height")) =>
        (pc = "panicked" /\ root_box = None)

(***************************************************************************)
(* Rows of inline-block children: the flushes                              *)
(***************************************************************************)
\* the flushes of the claim, replayed over the children k.. of parent: height is the
\* content height the parent has accumulated, cursor the row cursor, row_max the
\* largest margin-box height among the InlineBlock children placed in the pending row,
\* prev the box type of the child before.  A child sits at the accumulated height; the
\* parent without a declared height ends with it.
RECURSIVE FlushesAsClaimed(_, _, _, _, _, _)
FlushesAsClaimed(parent, k, height, cursor, row_max, prev) ==
    IF k > Len(parent.children)
    THEN DeclaresLength(parent.styled_node, "height")
            \/ parent.dimensions.content.height = height
    ELSE LET child == parent.children[k]
             w == margin_box(child.dimensions).width
             h == margin_box(child.dimensions).height
             follows == prev = "InlineBlock" /\ child.box_type = "Block"
             height1 == IF follows THEN height + row_max ELSE height
             cursor1 == IF follows THEN 0 ELSE cursor
             row_max1 == IF follows THEN 0 ELSE row_max
             wraps == child.box_type = "InlineBlock"
                         /\ cursor1 + w > parent.dimensions.content.width
             at == IF wraps THEN height1 + row_max1 ELSE height1
         IN  /\ margin_box(child.dimensions).y = parent.dimensions.content.y + at
             /\ IF child.box_type = "Block"
                THEN FlushesAsClaimed(parent, k + 1, at + h, cursor1, row_max1, "Block")
                ELSE IF child.box_type = "InlineBlock"
                THEN FlushesAsClaimed(parent, k + 1, at,
                                      IF wraps THEN w ELSE cursor1 + w,
                                      IF wraps THEN h ELSE Max(row_max1, h),
                                      "InlineBlock")
                ELSE FlushesAsClaimed(parent, k + 1, at, cursor1, row_max1, child.box_type)

\* C12, as claimed (for the root box, which is laid out once): every flush of a pending
\* row, on a wrap or before a Block child that follows an InlineBlock child, raises the
\* parent's content.height by the largest margin-box height among the InlineBlock
\* children placed in that row; earlier rows, earlier Block siblings and the child that
\* starts the next row do not enter that amount.
C12_FlushAmount_Claimed ==
    (LayoutDone /\ root_box[1].box_type # "Anonymous") =>
        FlushesAsClaimed(root_box[1], 1, 0, 0, 0, "Block")

RECURSIVE SumMarginBoxWidths(_, _)
SumMarginBoxWidths(children, k) ==
    IF k > Len(children) THEN 0
    ELSE margin_box(children[k].dimensions).width + SumMarginBoxWidths(children, k + 1)

RECURSIVE MaxMarginBoxHeight(_, _)
MaxMarginBoxHeight(children, k) ==
    IF k > Len(children) THEN 0
    ELSE Max(margin_box(children[k].dimensions).height, MaxMarginBoxHeight(children, k + 1))

\* the children of the run of InlineBlock children that ends the child list
FinalRun(box) ==
    {k \in 1..Len(box.children) :
        \A j \in k..Len(box.children) : box.children[j].box_type = "InlineBlock"}

\* the margin box of child k ends above the bottom of the parent's content box
EndsWithin(box, k) ==
    margin_box(box.children[k].dimensions).y + margin_box(box.children[k].dimensions).height
        <= box.dimensions.content.y + box.dimensions.content.height

\* C13, as claimed (for the trees whose root is laid out): in a box with no declared
\* height the row of InlineBlock children that ends the child list counts in
\* content.height, so each child of that row ends within the parent's content box;
\* a box whose children are all InlineBlock and fit in one row ends with
\* content.height the largest margin-box height of its children.
C13_LastRow_Claimed ==
    (LayoutDone /\ get_display(styled_root) # "None") =>
        \A r \in RootBoxes :
            ~DeclaresLength(r.box.styled_node, "height") =>
                /\ \A k \in FinalRun(r.box) : EndsWithin(r.box, k)
                /\ (/\ r.box.children # <<>>
                    /\ AllChildrenAre(r.box, "InlineBlock")
                    /\ SumMarginBoxWidths(r.box.children, 1) <= r.box.dimensions.content.width)
                   => r.box.dimensions.content.height
                          = MaxMarginBoxHeight(r.box.children, 1)

(***************************************************************************)
(* Block width: the sum                                                    *)
(***************************************************************************)
\* C14: after calculate_width on a Block or Inline box, in every arm of the width
\* algorithm, margin.left + border.left + padding.left + content.width + padding.right
\* + border.right + margin.right is the content width of the containing block: the
\* margin box of the box is as wide as its container.
C14_FillsContainer ==
    WidthDone =>
        LET d == root_box[1].dimensions
        IN  /\ d.margin.left + d.border.left + d.padding.left + d.content.width
                  + d.padding.right + d.border.right + d.margin.right
                     = containing_block.content.width
            /\ margin_box(d).width = containing_block.content.width

\* the over-constrained arm with a negative underflow: width 300 in a container of 100,
\* both margins "20", padding-left 10, border-right 4; the right margin ends at -234
C14_Witness ==
    /\ WidthDone
    /\ containing_block.content.width = 100
    /\ DOMAIN styled_root.styles = {"display", "width", "margin-left", "margin-right",
                                    "padding-left", "border-right-width"}
    /\ styled_root.styles["width"] = Px(300)
    /\ styled_root.styles["margin-left"] = Other(<<"2", "0">>)
    /\ styled_root.styles["margin-right"] = Other(<<"2", "0">>)
    /\ root_box[1].dimensions.content.width = 300
    /\ root_box[1].dimensions.margin.left = 20
    /\ root_box[1].dimensions.margin.right = 0 - 234

(***************************************************************************)
(* The second layout of a child that wraps                                 *)
(***************************************************************************)
\* the children k.. of parent that layout_children lays out twice: the InlineBlock
\* children whose advanced cursor exceeds the parent's content width
RECURSIVE LaidOutTwice(_, _, _, _)
LaidOutTwice(parent, k, cursor, prev) ==
    IF k > Len(parent.children) THEN {}
    ELSE LET child == parent.children[k]
             w == margin_box(child.dimensions).width
             cursor1 == IF prev = "InlineBlock" /\ child.box_type = "Block" THEN 0 ELSE cursor
             wraps == child.box_type = "InlineBlock"
                         /\ cursor1 + w > parent.dimensions.content.width
             cursor2 == IF child.box_type # "InlineBlock" THEN cursor1
                        ELSE IF wraps THEN w ELSE cursor1 + w
         IN  (IF wraps THEN {k} ELSE {}) \cup LaidOutTwice(parent, k + 1, cursor2, child.box_type)

\* child k of parent laid out once, from its fresh box, at the origin of the row it
\* starts: cursor 0, below the content height the parent had accumulated
OnceAtRowOrigin(parent, k) ==
    LET child == parent.children[k]
        origin == [parent.dimensions EXCEPT
                      !.current.x = 0,
                      !.content.height = margin_box(child.dimensions).y
                                         - parent.dimensions.content.y]
    IN  layout(build_layout_tree(child.styled_node), origin)

\* C15, as claimed (for the children of the root box, which is laid out once): an
\* InlineBlock child laid out a second time at the origin of a new row ends with the
\* content size, and its descendants with the geometry, of a single layout at that
\* origin; no content height and no row cursor of the first pass is carried over.
C15_CleanRelayout_Claimed ==
    (LayoutDone /\ root_box[1].box_type # "Anonymous") =>
        \A k \in LaidOutTwice(root_box[1], 1, 0, "Block") :
            Geometry(root_box[1].children[k]) = Geometry(OnceAtRowOrigin(root_box[1], k))

=============================================================================
